---------------------------- MODULE Spec2Model ----------------------------
(***************************************************************************)
(* A model of gphoto2go (src/gphoto2go.go): the camera session, the file   *)
(* stream reader, the asynchronous event wait, the recursive folder        *)
(* listing and the configuration fetch.  Each component has its own        *)
(* specification over its own variables; the variables of the other        *)
(* components stay at their initial values.                                *)
(***************************************************************************)
EXTENDS Integers, Sequences, FiniteSets, TLC

VARIABLES
    cfr,        \* the cameraFileReader struct: fullSize, offset, closed
    fileFrees,  \* number of gp_file_free calls made on cfr.cCameraFile
    p,          \* the caller's buffer after the last Read, at the probe indices
    ret,        \* the last call on the reader and what it returned
    hist,       \* what the caller has seen so far on the reader: the calls made, the
                \* bytes received, end-of-stream, and of the read loop the calls made
                \* and the smallest chunk a buffer passed would take
    cam,        \* the Camera struct: camera and context (0 is the nil pointer)
    nat,        \* the contexts and camera handles the native library has allocated,
                \* numbered from 1; no operation of the session destroys one
    widgets,    \* gp_widget_free calls made on each widget node allocated
    sret,       \* the last session operation and what it returned
    life,       \* the session's lifecycle as its caller has driven it
    waits,      \* the AsyncWaitForEvent calls made: each one's task, channel and caller
    tree,       \* the folders on the device
    stack,      \* the RListFolders calls in progress, innermost last
    rl,         \* the RListFolders call made at the top: its argument and result
    lst         \* the last ListFolders or ListFiles call and what it returned

readerVars == <<cfr, fileFrees, p, ret, hist>>

sessionVars == <<cam, nat, widgets, sret, life>>

eventVars == <<waits>>

rlistVars == <<tree, stack, rl>>

listingVars == <<lst>>

vars == <<readerVars, sessionVars, eventVars, rlistVars, listingVars>>

notReader == <<sessionVars, eventVars, rlistVars, listingVars>>

notSession == <<readerVars, eventVars, rlistVars, listingVars>>

notEvent == <<readerVars, sessionVars, rlistVars, listingVars>>

notRList == <<readerVars, sessionVars, eventVars, listingVars>>

notListing == <<readerVars, sessionVars, eventVars, rlistVars>>

-----------------------------------------------------------------------------
(* Bounds of the model.                                                    *)

\* small buffer lengths and file sizes 0..MaxSmall are enumerated one by one
MaxSmall == 3
\* Read calls made on one reader
MaxReads == 5
\* Close calls made on one reader
MaxCloses == 3
\* operations called on one session
MaxCalls == 3
\* AsyncWaitForEvent calls made on one session
MaxWaits == 2
\* folders on the device, the root apart
MaxFolders == 3
\* entries of the list a listing call fills
MaxList == 2
\* ListFolders and ListFiles calls made on one session
MaxListings == 2

-----------------------------------------------------------------------------
(* The file stream reader: cameraFileReader.                               *)

fileReaderBufferSize == 1 * 1024 * 1024

Min(a, b) == IF a < b THEN a ELSE b

\* len(p) of the buffers a caller passes to Read
BufLens ==
    (0 .. MaxSmall)
        \cup {fileReaderBufferSize - 1, fileReaderBufferSize, fileReaderBufferSize + 1}

\* cSize as gp_file_get_data_and_size reports it to FileReader
FileSizes ==
    (0 .. MaxSmall)
        \cup {fileReaderBufferSize - 1, fileReaderBufferSize, fileReaderBufferSize + 1,
              2 * fileReaderBufferSize + 1}

\* the indices of the caller's buffer the model keeps
Probes == {0, 1, 2, fileReaderBufferSize - 1, fileReaderBufferSize}

\* what the caller's buffer holds where Read has not written
Untouched == -1

\* goSlice[i]: the resident native buffer, as C.char (signed)
goSlice(i) == ((i * 37 + 11) % 256) - 128

\* byte(c) of a C.char
byte(c) == c % 256

\* toRead as lines 268-278 compute it
toRead_noCap(bufLen, remaining, n) == Min(remaining, n)

toRead(bufLen, remaining, n) ==
    LET t1 == bufLen
        t2 == IF t1 > remaining THEN remaining ELSE t1
    IN  IF t2 > n THEN n ELSE t2

\* the error of a Read that copied, lines 295-298
readErr_early(offset, fullSize) == IF offset + 1 < fullSize THEN "nil" ELSE "EOF"

readErr_inclusive(offset, fullSize) == IF offset <= fullSize THEN "nil" ELSE "EOF"

readErr(offset, fullSize) == IF offset < fullSize THEN "nil" ELSE "EOF"

\* the copy loop, lines 289-291, seen at the probe indices of a buffer of length n;
\* goSlice has length fullSize, an index beyond it panics
copied_fromStart(r, n, t) ==
    [i \in {j \in Probes : j < n} |->
        IF i < t THEN byte(goSlice(i)) ELSE Untouched]

copied(r, n, t) ==
    [i \in {j \in Probes : j < n} |->
        IF i < t THEN byte(goSlice(r.offset + i)) ELSE Untouched]

outOfRange(r, t) == t > 0 /\ r.offset + t > r.fullSize

\* Read(p) on reader r with len(p) = n: the reader after the call, the buffer, and
\* the returned (n, err)
readCall_ignoreClosed(r, n) ==
    LET t == toRead(fileReaderBufferSize, r.fullSize - r.offset, n)
        r2 == [r EXCEPT !.offset = r.offset + t]
    IN  IF n = 0
        THEN [cfr |-> r, p |-> copied(r, n, 0), n |-> 0, err |-> "nil"]
        ELSE [cfr |-> r2, p |-> copied(r, n, t), n |-> t,
              err |-> readErr(r2.offset, r2.fullSize)]

readCall(r, n) ==
    IF r.closed
    THEN [cfr |-> r, p |-> copied(r, n, 0), n |-> 0, err |-> "ErrClosedPipe"]
    ELSE IF n = 0
    THEN [cfr |-> r, p |-> copied(r, n, 0), n |-> 0, err |-> "nil"]
    ELSE LET t == toRead(fileReaderBufferSize, r.fullSize - r.offset, n)
             r2 == [r EXCEPT !.offset = r.offset + t]
         IN  IF outOfRange(r, t)
             THEN [cfr |-> r, p |-> copied(r, n, 0), n |-> 0, err |-> "panic"]
             ELSE [cfr |-> r2, p |-> copied(r, n, t), n |-> t,
                   err |-> readErr(r2.offset, r2.fullSize)]

\* Close(): the reader after the call and the gp_file_free calls it made
closeCall_reopens(r) ==
    IF ~r.closed
    THEN [cfr |-> [r EXCEPT !.closed = TRUE], frees |-> 1]
    ELSE [cfr |-> [r EXCEPT !.closed = FALSE], frees |-> 0]

closeCall_always(r) == [cfr |-> [r EXCEPT !.closed = TRUE], frees |-> 1]

closeCall(r) ==
    IF ~r.closed
    THEN [cfr |-> [r EXCEPT !.closed = TRUE], frees |-> 1]
    ELSE [cfr |-> r, frees |-> 0]

NoCall == [op |-> "none", len |-> 0, n |-> 0, err |-> "nil", before |-> 0,
           wasClosed |-> FALSE, eofBefore |-> FALSE]

\* FileReader(folder, fileName): offset 0, not closed, fullSize = cSize
InitReader ==
    /\ \E size \in FileSizes : cfr = [fullSize |-> size, offset |-> 0, closed |-> FALSE]
    /\ fileFrees = 0
    /\ p = << >>
    /\ ret = NoCall
    /\ hist = [reads |-> 0, closes |-> 0, sum |-> 0, eof |-> FALSE,
               calls |-> 0, chunk |-> fileReaderBufferSize]

\* a Read(p) of a caller's read loop: the reader is open, p is not empty and no
\* Read has reported end-of-stream yet
inLoop(r, n) == ~r.closed /\ n > 0 /\ ~hist.eof

Read ==
    /\ hist.reads < MaxReads
    /\ \E n \in BufLens :
         LET c == readCall(cfr, n)
         IN  /\ ret.err # "panic"
             /\ cfr' = c.cfr
             /\ p' = c.p
             /\ ret' = [op |-> "Read", len |-> n, n |-> c.n, err |-> c.err,
                        before |-> cfr.offset, wasClosed |-> cfr.closed,
                        eofBefore |-> hist.eof]
             /\ hist' = [hist EXCEPT !.reads = @ + 1, !.sum = @ + c.n,
                                     !.eof = @ \/ c.err = "EOF",
                                     !.calls = IF inLoop(cfr, n) THEN @ + 1 ELSE @,
                                     !.chunk = IF inLoop(cfr, n)
                                               THEN Min(@, Min(n, fileReaderBufferSize))
                                               ELSE @]
    /\ UNCHANGED <<fileFrees, notReader>>

Close ==
    /\ hist.closes < MaxCloses
    /\ ret.err # "panic"
    /\ LET c == closeCall(cfr)
       IN  /\ cfr' = c.cfr
           /\ fileFrees' = fileFrees + c.frees
           /\ ret' = [op |-> "Close", len |-> 0, n |-> 0, err |-> "nil",
                      before |-> cfr.offset, wasClosed |-> cfr.closed,
                      eofBefore |-> hist.eof]
           /\ hist' = [hist EXCEPT !.closes = @ + 1]
    /\ UNCHANGED <<p, notReader>>


-----------------------------------------------------------------------------
(* The camera session: Camera and its operations.  Every native call       *)
(* returns a result code the device decides.                               *)

\* GP_OK, GP_ERROR, GP_ERROR_BAD_PARAMETERS
ResultCodes == {0, -1, -2}

\* the results a native call may return that is handed the camera handle: the
\* library rejects the nil handle
resultsOn(camera) == IF camera = 0 THEN ResultCodes \ {0} ELSE ResultCodes

\* gp_result_as_string
resultAsString(rc) ==
    CASE rc = 0 -> "No error"
      [] rc = -1 -> "Unspecified error"
      [] rc = -2 -> "Bad parameters"
      [] OTHER -> "Unknown error"

\* cameraResultToError: nil for 0, an error carrying the translated string otherwise
cameraResultToError(rc) == IF rc # 0 THEN resultAsString(rc) ELSE "nil"

\* what an operation left behind: native says whether a native call it made came
\* back non-zero (or a native allocation came back nil), err is the error it
\* returned ("nil" for none, "none" when its signature has no error)
Returned(op, native, err) ==
    [op |-> op, native |-> native, err |-> err, phase |-> life.phase,
     w |-> 0, allocated |-> {}]

Called(phase) == life' = [calls |-> life.calls + 1, phase |-> phase]

InitSession ==
    /\ cam = [camera |-> 0, context |-> 0]
    /\ nat = [contexts |-> 0, cameras |-> 0]
    /\ widgets = << >>
    /\ sret = [op |-> "none", native |-> FALSE, err |-> "nil", phase |-> "new",
               w |-> 0, allocated |-> {}]
    /\ life = [calls |-> 0, phase |-> "new"]

\* a session after an Init in which every native step succeeded
InitedSession ==
    /\ cam = [camera |-> 1, context |-> 1]
    /\ nat = [contexts |-> 1, cameras |-> 1]
    /\ widgets = << >>
    /\ sret = [op |-> "Init", native |-> FALSE, err |-> "nil", phase |-> "new",
               w |-> 0, allocated |-> {}]
    /\ life = [calls |-> 1, phase |-> "inited"]

\* Init: gp_context_new, gp_camera_new (result dropped), gp_camera_init
CameraInit ==
    /\ life.calls < MaxCalls
    /\ \E ctxOk \in BOOLEAN, rcNew \in ResultCodes :
       \E rcInit \in resultsOn(IF rcNew = 0 THEN nat.cameras + 1 ELSE cam.camera) :
         /\ nat' = [contexts |-> nat.contexts + (IF ctxOk THEN 1 ELSE 0),
                    cameras |-> nat.cameras + (IF rcNew = 0 THEN 1 ELSE 0)]
         /\ cam' = [context |-> IF ctxOk THEN nat.contexts + 1 ELSE 0,
                  camera |-> IF rcNew = 0 THEN nat.cameras + 1 ELSE cam.camera]
         /\ sret' = Returned("Init", ~ctxOk \/ rcNew # 0 \/ rcInit # 0,
                             cameraResultToError(rcInit))
         /\ Called(IF rcInit = 0 THEN "inited"
                   ELSE IF life.phase = "new" THEN "initFailed" ELSE life.phase)
    /\ UNCHANGED <<widgets, notSession>>

\* Exit: gp_camera_exit on the handle and context held, whatever they are
CameraExit ==
    /\ life.calls < MaxCalls
    /\ \E rc \in resultsOn(cam.camera) :
         /\ sret' = Returned("Exit", rc # 0, cameraResultToError(rc))
         /\ Called(IF rc = 0 /\ life.phase = "inited" THEN "exited" ELSE life.phase)
    /\ UNCHANGED <<cam, nat, widgets, notSession>>

\* Cancel: gp_context_cancel, which returns nothing
Cancel ==
    /\ life.calls < MaxCalls
    /\ sret' = Returned("Cancel", FALSE, "none")
    /\ Called(life.phase)
    /\ UNCHANGED <<cam, nat, widgets, notSession>>

\* what an operation returns that makes one native call and returns its
\* translated result
checked(op, rc) == Returned(op, rc # 0, cameraResultToError(rc))

\* TriggerCapture: gp_camera_trigger_capture
TriggerCapture ==
    /\ life.calls < MaxCalls
    /\ \E rc \in resultsOn(cam.camera) : sret' = checked("TriggerCapture", rc)
    /\ Called(life.phase)
    /\ UNCHANGED <<cam, nat, widgets, notSession>>

\* TriggerCaptureToFile: gp_camera_capture; the path is read on success only
TriggerCaptureToFile ==
    /\ life.calls < MaxCalls
    /\ \E rc \in resultsOn(cam.camera) : sret' = checked("TriggerCaptureToFile", rc)
    /\ Called(life.phase)
    /\ UNCHANGED <<cam, nat, widgets, notSession>>

\* DeleteFile: gp_camera_file_delete
DeleteFile ==
    /\ life.calls < MaxCalls
    /\ \E rc \in resultsOn(cam.camera) : sret' = checked("DeleteFile", rc)
    /\ Called(life.phase)
    /\ UNCHANGED <<cam, nat, widgets, notSession>>

\* Model, through GetAbilities: gp_camera_get_abilities
Model ==
    /\ life.calls < MaxCalls
    /\ \E rc \in resultsOn(cam.camera) : sret' = checked("Model", rc)
    /\ Called(life.phase)
    /\ UNCHANGED <<cam, nat, widgets, notSession>>

\* SetConfig: gp_camera_set_config; the translated error is wrapped in a message
SetConfig ==
    /\ life.calls < MaxCalls
    /\ \E rc \in resultsOn(cam.camera) : sret' = checked("SetConfig", rc)
    /\ Called(life.phase)
    /\ UNCHANGED <<cam, nat, widgets, notSession>>

\* CapturePreview: gp_file_new (result dropped), gp_camera_capture_preview
\* (returned), gp_file_get_data_and_size in getPreviewFile (result dropped)
CapturePreview ==
    /\ life.calls < MaxCalls
    /\ \E rcNew \in ResultCodes, rc \in resultsOn(cam.camera), rcData \in ResultCodes :
         sret' = Returned("CapturePreview", rcNew # 0 \/ rc # 0 \/ rcData # 0,
                          cameraResultToError(rc))
    /\ Called(life.phase)
    /\ UNCHANGED <<cam, nat, widgets, notSession>>

\* FileReader: gp_file_new, gp_camera_file_get, gp_file_get_data_and_size, every
\* result dropped; it returns a reader and has no error to return
FileReader ==
    /\ life.calls < MaxCalls
    /\ \E rcNew \in ResultCodes, rcGet \in resultsOn(cam.camera), rcData \in ResultCodes :
         sret' = Returned("FileReader", rcNew # 0 \/ rcGet # 0 \/ rcData # 0, "none")
    /\ Called(life.phase)
    /\ UNCHANGED <<cam, nat, widgets, notSession>>

\* AsyncWaitForEvent as its caller sees it: a channel comes back, and the result
\* of gp_camera_wait_for_event is dropped in the background task
AsyncWaitForEventCall ==
    /\ life.calls < MaxCalls
    /\ \E rc \in resultsOn(cam.camera) :
         sret' = Returned("AsyncWaitForEvent", rc # 0, "none")
    /\ Called(life.phase)
    /\ UNCHANGED <<cam, nat, widgets, notSession>>

\* ListFolders as to its error: gp_list_new (result dropped), then gp_camera_folder_list_folders
\* (returned)
ListFolders ==
    /\ life.calls < MaxCalls
    /\ \E rcNew \in ResultCodes, rc \in resultsOn(cam.camera) :
         sret' = Returned("ListFolders", rcNew # 0 \/ rc # 0, cameraResultToError(rc))
    /\ Called(life.phase)
    /\ UNCHANGED <<cam, nat, widgets, notSession>>

\* ListFiles as to its error: gp_list_new (result dropped), then gp_camera_folder_list_files
\* (returned)
ListFiles ==
    /\ life.calls < MaxCalls
    /\ \E rcNew \in ResultCodes, rc \in resultsOn(cam.camera) :
         sret' = Returned("ListFiles", rcNew # 0 \/ rc # 0, cameraResultToError(rc))
    /\ Called(life.phase)
    /\ UNCHANGED <<cam, nat, widgets, notSession>>

\* GetConfig(): rcNew and rcGet are the results of gp_widget_new and
\* gp_camera_get_config.  Both take &w.widget: gp_widget_new stores a new node
\* there on success; gp_camera_get_config on success either fills the node it
\* finds there or stores a root of its own (replaces).  heap counts the
\* gp_widget_free calls on each node allocated.
getConfigCall(heap, rcNew, rcGet, replaces) ==
    LET root == Len(heap) + 1
        heap1 == Append(heap, 0)
    IN  IF rcNew # 0
        THEN \* C.free(w.widget) of the nil pointer
             [heap |-> heap, w |-> 0, err |-> cameraResultToError(rcNew),
              allocated |-> {}]
        ELSE IF rcGet # 0
        THEN \* w.Free()
             [heap |-> [heap1 EXCEPT ![root] = @ + 1], w |-> 0,
              err |-> cameraResultToError(rcGet), allocated |-> {root}]
        ELSE IF replaces
        THEN [heap |-> Append(heap1, 0), w |-> root + 1, err |-> "nil",
              allocated |-> {root, root + 1}]
        ELSE [heap |-> heap1, w |-> root, err |-> "nil", allocated |-> {root}]

GetConfig ==
    /\ life.calls < MaxCalls
    /\ \E rcNew \in ResultCodes, rcGet \in resultsOn(cam.camera), replaces \in BOOLEAN :
         LET g == getConfigCall(widgets, rcNew, rcGet, replaces)
         IN  /\ widgets' = g.heap
             /\ sret' = [Returned("GetConfig", rcNew # 0 \/ rcGet # 0, g.err)
                            EXCEPT !.w = g.w, !.allocated = g.allocated]
    /\ Called(life.phase)
    /\ UNCHANGED <<cam, nat, notSession>>

NextSession ==
    \/ CameraInit \/ CameraExit \/ Cancel
    \/ TriggerCapture \/ TriggerCaptureToFile \/ CapturePreview
    \/ AsyncWaitForEventCall
    \/ ListFolders \/ ListFiles
    \/ Model \/ FileReader \/ DeleteFile
    \/ SetConfig \/ GetConfig

-----------------------------------------------------------------------------
(* AsyncWaitForEvent: the caller, the background task and the channel.     *)

EventUnknown == "GP_EVENT_UNKNOWN"

EventTimeout == "GP_EVENT_TIMEOUT"

EventFileAdded == "GP_EVENT_FILE_ADDED"

\* the nil unsafe.Pointer
NilPtr == [kind |-> "nil"]

\* what gp_camera_wait_for_event may store in eventType and vp when it succeeds
NativeEvents ==
    {[type |-> EventTimeout, vp |-> NilPtr],
     [type |-> EventUnknown, vp |-> [kind |-> "text"]]}
        \cup {[type |-> EventFileAdded,
               vp |-> [kind |-> "path", name |-> n, folder |-> "/store"]] :
                 n \in {"IMG_1.JPG", "IMG_2.JPG"}}

\* cCameraEventToGoCameraEvent
cCameraEventToGoCameraEvent(voidPtr, eventType) ==
    IF eventType = EventFileAdded
    THEN [Type |-> eventType, File |-> voidPtr.name, Folder |-> voidPtr.folder]
    ELSE [Type |-> eventType, File |-> "", Folder |-> ""]

\* the background task, lines 98-101: the native wait, then the conversion, then
\* the send on ch, then its end
taskAfter_sendAgain(pc) ==
    CASE pc = "wait" -> "convert"
      [] pc = "convert" -> "send"
      [] pc = "send" -> "send"

taskAfter(pc) ==
    CASE pc = "wait" -> "convert"
      [] pc = "convert" -> "send"
      [] pc = "send" -> "done"

InitEvent == waits = << >>

\* AsyncWaitForEvent(timeout): eventType and vp start at their zero values; the
\* deferred C.free takes vp as it is when the defer statement runs (nil) and
\* runs when the function returns; ch is unbuffered; the task is started
AsyncWaitForEvent ==
    /\ Len(waits) < MaxWaits
    /\ waits' = Append(waits,
                       [pc |-> "wait", eventType |-> EventUnknown, vp |-> NilPtr,
                        freed |-> <<NilPtr>>, ce |-> NilPtr,
                        sent |-> 0, received |-> 0, closed |-> FALSE,
                        rx |-> "idle"])
    /\ UNCHANGED notEvent

\* gp_camera_wait_for_event returns in the task of call k; its result is dropped
NativeWait ==
    \E k \in DOMAIN waits :
        /\ waits[k].pc = "wait"
        /\ \E rc \in resultsOn(cam.camera), e \in NativeEvents :
             waits' = [waits EXCEPT
                          ![k].pc = taskAfter("wait"),
                          ![k].eventType = IF rc = 0 THEN e.type ELSE @,
                          ![k].vp = IF rc = 0 THEN e.vp ELSE @]
        /\ UNCHANGED notEvent

\* the operand of the send is evaluated
Convert ==
    \E k \in DOMAIN waits :
        /\ waits[k].pc = "convert"
        /\ waits' = [waits EXCEPT
                        ![k].pc = taskAfter("convert"),
                        ![k].ce = cCameraEventToGoCameraEvent(waits[k].vp,
                                                              waits[k].eventType)]
        /\ UNCHANGED notEvent

\* the caller starts a receive on the channel of call k
Receive ==
    \E k \in DOMAIN waits :
        /\ waits[k].rx \in {"idle", "got"}
        /\ waits[k].received < 2
        /\ waits' = [waits EXCEPT ![k].rx = "receiving"]
        /\ UNCHANGED notEvent

\* the caller drops the channel of call k without receiving
Abandon ==
    \E k \in DOMAIN waits :
        /\ waits[k].rx = "idle"
        /\ waits' = [waits EXCEPT ![k].rx = "abandoned"]
        /\ UNCHANGED notEvent

\* ch <- ce meets a receive: the unbuffered channel hands the event over, and
\* the task goes on
sendOn(k) ==
    /\ waits[k].pc = "send"
    /\ waits[k].rx = "receiving"
    /\ waits' = [waits EXCEPT
                    ![k].pc = taskAfter("send"),
                    ![k].sent = @ + 1,
                    ![k].received = @ + 1,
                    ![k].rx = "got"]

Send ==
    \E k \in DOMAIN waits :
        /\ sendOn(k)
        /\ UNCHANGED notEvent

NextEvent == AsyncWaitForEvent \/ NativeWait \/ Convert \/ Receive \/ Abandon \/ Send

-----------------------------------------------------------------------------
(* RListFolders over ListFolders.  A string is a sequence of characters, a *)
(* folder of the device the sequence of the names that lead to it.         *)

Names == {<<"a">>, <<"b">>, <<"c">>}

RECURSIVE TreesOf(_)
\* the folder trees of at most n folders: every folder's parent is in the tree
TreesOf(n) ==
    IF n = 0
    THEN {{}}
    ELSE LET smaller == TreesOf(n - 1)
         IN  smaller \cup
               UNION {{t \cup {Append(q, x)} : q \in t \cup {<< >>}, x \in Names} :
                        t \in smaller}

Trees == TreesOf(MaxFolders)

RECURSIVE Qualified(_)
\* the fully-qualified path of a folder: "/a/b" for <<a, b>>
Qualified(q) ==
    IF q = << >> THEN << >> ELSE <<"/">> \o Head(q) \o Qualified(Tail(q))

RECURSIVE parse(_, _, _)
parse(s, name, names) ==
    LET closed == IF name = << >> THEN names ELSE Append(names, name)
    IN  IF s = << >> THEN closed
        ELSE IF Head(s) = "/" THEN parse(Tail(s), << >>, closed)
        ELSE parse(Tail(s), Append(name, Head(s)), names)

\* the folder a path string names to the device
Parse(s) == parse(s, << >>, << >>)

\* the sequences that hold every element of S once
Orders(S) ==
    {f \in [1 .. Cardinality(S) -> S] : \A i, j \in DOMAIN f : i # j => f[i] # f[j]}

\* the CameraList gp_camera_folder_list_folders fills for a folder: an entry
\* for each direct subfolder, in the device's order
nativeFolders(t, folder) ==
    LET q == Parse(folder)
        subs == {r[Len(r)] : r \in {r \in t : Len(r) = Len(q) + 1
                                               /\ SubSeq(r, 1, Len(q)) = q}}
        order == CHOOSE f \in Orders(subs) : TRUE
    IN  [i \in DOMAIN order |-> [name |-> order[i], value |-> << >>]]

\* cameraListToMap: a later entry of a name overwrites an earlier one
cameraListToMap(cameraList) ==
    [key \in {cameraList[i].name : i \in DOMAIN cameraList} |->
        cameraList[CHOOSE i \in DOMAIN cameraList :
                      /\ cameraList[i].name = key
                      /\ \A j \in DOMAIN cameraList :
                           j > i => cameraList[j].name # key].value]

\* strings.HasSuffix(s, "/")
HasSuffixSlash(s) == Len(s) > 0 /\ s[Len(s)] = "/"

\* lines 120-122: ListFolders lists "/" for the empty path
folderArg(folder) == IF folder = << >> THEN <<"/">> ELSE folder

\* lines 163-169: ListFiles lists "/" for the empty path, and a path that ends
\* in the separator
filesArg(folder) ==
    LET f == IF folder = << >> THEN <<"/">> ELSE folder
    IN  IF ~HasSuffixSlash(f) THEN f \o <<"/">> ELSE f

\* the orders in which ListFolders(folder) may return the names the device
\* holds for the folder
listFoldersNames(t, folder) ==
    Orders(DOMAIN cameraListToMap(nativeFolders(t, folderArg(folder))))

\* what ListFolders and ListFiles return when the listing call returns rc and
\* names is the order in which the map's keys come
listFolders_keepsNames(rc, names) ==
    [names |-> names, err |-> cameraResultToError(rc)]

listFolders(rc, names) ==
    IF cameraResultToError(rc) # "nil"
    THEN [names |-> << >>, err |-> cameraResultToError(rc)]
    ELSE [names |-> names, err |-> "nil"]

\* lines 148-151
pathOf_alwaysAppends(folder) == folder \o <<"/">>

pathOf(folder) == IF ~HasSuffixSlash(folder) THEN folder \o <<"/">> ELSE folder

\* line 154
subPathOf(path, sub) == path \o sub

\* line 156: the folders a nested call returned go after the caller's own
appendReturned_dropped(folders, returned) == folders

appendReturned(folders, returned) == folders \o returned

\* RListFolders(folder) up to its loop, lines 147-152: the error of ListFolders
\* is dropped
enter(folder, rc, names) ==
    [path |-> pathOf(folder), subfolders |-> listFolders(rc, names).names,
     i |-> 1, folders |-> << >>]

\* the arguments the model calls RListFolders with
Starts(t) ==
    {<< >>, <<"/">>}
        \cup UNION {{Qualified(q), Qualified(q) \o <<"/">>} : q \in {r \in t : Len(r) = 1}}

InitRList ==
    /\ tree \in Trees
    /\ stack = << >>
    /\ rl = [called |-> FALSE, start |-> << >>, done |-> FALSE, result |-> << >>,
             failed |-> {}, listed |-> 0]

\* the outermost call
RListFolders ==
    /\ ~rl.called
    /\ \E folder \in Starts(tree), rc \in resultsOn(cam.camera) :
         \E names \in listFoldersNames(tree, pathOf(folder)) :
            /\ stack' = <<enter(folder, rc, names)>>
            /\ rl' = [rl EXCEPT !.called = TRUE, !.start = folder,
                                !.listed = 1,
                                !.failed = IF rc # 0 THEN {pathOf(folder)} ELSE {}]
    /\ UNCHANGED <<tree, notRList>>

\* one turn of the loop up to the nested call's entry, lines 153-156
RListRecurse ==
    /\ stack # << >>
    /\ LET top == stack[Len(stack)]
       IN  /\ top.i <= Len(top.subfolders)
           /\ LET subPath == subPathOf(top.path, top.subfolders[top.i])
              IN  \E rc \in resultsOn(cam.camera) :
                    \E names \in listFoldersNames(tree, pathOf(subPath)) :
                       /\ stack' = Append(
                              [stack EXCEPT ![Len(stack)].folders = Append(@, subPath)],
                              enter(subPath, rc, names))
                       /\ rl' = [rl EXCEPT
                                    !.listed = @ + 1,
                                    !.failed = IF rc # 0
                                               THEN @ \cup {pathOf(subPath)} ELSE @]
    /\ UNCHANGED <<tree, notRList>>

\* the loop is over and the call returns its folders, line 159: to the turn of
\* the caller's loop that made the call, or to the caller of the outermost call
RListReturn ==
    /\ stack # << >>
    /\ LET top == stack[Len(stack)]
           below == SubSeq(stack, 1, Len(stack) - 1)
       IN  /\ top.i > Len(top.subfolders)
           /\ IF below = << >>
              THEN /\ stack' = << >>
                   /\ rl' = [rl EXCEPT !.done = TRUE, !.result = top.folders]
              ELSE /\ stack' = [below EXCEPT
                                   ![Len(below)].folders = appendReturned(@, top.folders),
                                   ![Len(below)].i = @ + 1]
                   /\ rl' = rl
    /\ UNCHANGED <<tree, notRList>>

NextRList == RListFolders \/ RListRecurse \/ RListReturn

-----------------------------------------------------------------------------
(* ListFolders and ListFiles with what they return.                        *)

\* the folder arguments the model calls the listing operations with
FolderArgs == {<< >>, <<"/">>, <<"/", "a">>, <<"/", "a", "/">>}

\* the CameraLists a listing call may fill: entries may share a name
NativeLists ==
    UNION {[1 .. n -> [name : Names, value : {<< >>}]] : n \in 0 .. MaxList}

InitListing ==
    lst = [calls |-> 0, op |-> "none", folder |-> << >>, cFolder |-> << >>, rc |-> 0,
           list |-> << >>, names |-> << >>, err |-> "nil"]

\* a listing operation called with folder that hands cFolder to a listing call
\* which returns rc and leaves list filled (in part, when it fails)
listed(op, folder, cFolder, rc, list, names) ==
    LET l == listFolders(rc, names)
    IN  lst' = [calls |-> lst.calls + 1, op |-> op, folder |-> folder,
                cFolder |-> cFolder, rc |-> rc, list |-> list,
                names |-> l.names, err |-> l.err]

\* ListFolders(folder): gp_camera_folder_list_folders, cameraListToMap, the keys
ListFoldersOf ==
    /\ lst.calls < MaxListings
    /\ \E folder \in FolderArgs, rc \in resultsOn(cam.camera) :
         \E list \in NativeLists :
            \E names \in Orders(DOMAIN cameraListToMap(list)) :
               listed("ListFolders", folder, folderArg(folder), rc, list, names)
    /\ UNCHANGED notListing

\* ListFiles(folder): gp_camera_folder_list_files, cameraListToMap, the keys
ListFilesOf ==
    /\ lst.calls < MaxListings
    /\ \E folder \in FolderArgs, rc \in resultsOn(cam.camera) :
         \E list \in NativeLists :
            \E names \in Orders(DOMAIN cameraListToMap(list)) :
               listed("ListFiles", folder, filesArg(folder), rc, list, names)
    /\ UNCHANGED notListing

NextListing == ListFoldersOf \/ ListFilesOf

IdleReader == InitReader /\ cfr.fullSize = 0

IdleRList == InitRList /\ tree = {}

-----------------------------------------------------------------------------
(* The specifications, one for each component.                             *)

\* a reader FileReader has returned, under Read and Close
Init == InitReader /\ InitedSession /\ InitEvent /\ IdleRList /\ InitListing

Next == Read \/ Close

Spec == Init /\ [][Next]_vars

\* a session under its operations
SessionInit == IdleReader /\ InitSession /\ InitEvent /\ IdleRList /\ InitListing

SpecSession == SessionInit /\ [][NextSession]_vars

\* the event waits of a session
EventInit == IdleReader /\ InitedSession /\ InitEvent /\ IdleRList /\ InitListing

SpecEvent == EventInit /\ [][NextEvent]_vars

\* a recursive listing of a device's folders
RListInit == IdleReader /\ InitedSession /\ InitEvent /\ InitRList /\ InitListing

SpecRList == RListInit /\ [][NextRList]_vars

\* the flat listings of a session
ListingInit == IdleReader /\ InitedSession /\ InitEvent /\ IdleRList /\ InitListing

SpecListing == ListingInit /\ [][NextListing]_vars

-----------------------------------------------------------------------------
(* The file stream reader's claims, checked under Spec.                    *)

\* C1: when a Read first reports end-of-stream, the byte counts returned by all
\* Read calls so far add up to fullSize exactly, and no Read issued after an
\* end-of-stream returns a byte count above zero.
C1_SumAtEndOfStream ==
    /\ (ret.op = "Read" /\ ret.err = "EOF" /\ ~ret.eofBefore) => hist.sum = cfr.fullSize
    /\ (ret.op = "Read" /\ ret.eofBefore) => ret.n = 0

C1_Witness ==
    /\ ret.op = "Read" /\ ret.eofBefore /\ ret.len > 0
    /\ hist.reads >= 4
    /\ cfr.fullSize > fileReaderBufferSize
    /\ hist.sum = cfr.fullSize

\* C2: a Read on an open reader with a buffer of length B returns exactly
\* min(B, remaining, chunkCap) bytes, which is never more than remaining.
C2_ReadCount ==
    (ret.op = "Read" /\ ~ret.wasClosed) =>
        /\ ret.n = Min(ret.len, Min(cfr.fullSize - ret.before, fileReaderBufferSize))
        /\ ret.n <= cfr.fullSize - ret.before

C2_Witness ==
    /\ ret.op = "Read" /\ ~ret.wasClosed
    /\ ret.len > fileReaderBufferSize
    /\ cfr.fullSize - ret.before > fileReaderBufferSize
    /\ ret.n = fileReaderBufferSize

\* C3 as stated: once offset = fullSize, every Read on the open reader, for every
\* buffer length, reports end-of-stream with zero bytes.
C3_AsStated ==
    (ret.op = "Read" /\ ~ret.wasClosed /\ ret.before = cfr.fullSize) =>
        (ret.err = "EOF" /\ ret.n = 0)

\* C3 as amended: once offset = fullSize, every Read on the open reader with a
\* non-empty buffer reports end-of-stream with zero bytes; a Read with an empty
\* buffer returns zero bytes and no error.
C3_EndOfStreamSticks ==
    (ret.op = "Read" /\ ~ret.wasClosed /\ ret.before = cfr.fullSize) =>
        /\ ret.n = 0
        /\ cfr.offset = cfr.fullSize
        /\ ret.len > 0 => ret.err = "EOF"
        /\ ret.len = 0 => ret.err = "nil"

C3_Witness ==
    /\ ret.op = "Read" /\ ~ret.wasClosed /\ ret.before = cfr.fullSize
    /\ ret.len > 0 /\ ret.err = "EOF" /\ ret.n = 0
    /\ cfr.fullSize = 0

\* C4: a Read after Close fails with the closed-stream error, returns zero bytes,
\* writes nothing into the caller's buffer and leaves offset unchanged.
C4_ReadAfterClose ==
    (ret.op = "Read" /\ ret.wasClosed) =>
        /\ ret.err = "ErrClosedPipe"
        /\ ret.n = 0
        /\ \A i \in DOMAIN p : p[i] = Untouched
        /\ cfr.offset = ret.before

C4_Witness ==
    /\ ret.op = "Read" /\ ret.wasClosed
    /\ ret.len > fileReaderBufferSize
    /\ 0 < ret.before /\ ret.before < cfr.fullSize
    /\ ret.err = "ErrClosedPipe"

\* C5: over any sequence of Read and Close calls the native file object is
\* released at most once: the first Close releases it and latches closed, a
\* later Close returns no error and releases nothing.
C5_ReleasedOnce ==
    /\ fileFrees <= 1
    /\ hist.closes >= 1 => (fileFrees = 1 /\ cfr.closed)
    /\ hist.closes = 0 => (fileFrees = 0 /\ ~cfr.closed)
    /\ ret.op = "Close" => ret.err = "nil"

C5_Witness ==
    /\ ret.op = "Close" /\ ret.wasClosed
    /\ hist.closes >= 2 /\ hist.reads >= 1
    /\ fileFrees = 1

\* C12 as stated: for every Read on an open reader, if offset equals fullSize
\* after the call it reports end-of-stream together with its byte count, and if
\* offset is still below fullSize it reports its byte count with no error.
C12_AsStated ==
    (ret.op = "Read" /\ ~ret.wasClosed) =>
        /\ ret.n = cfr.offset - ret.before
        /\ cfr.offset = cfr.fullSize => ret.err = "EOF"
        /\ cfr.offset < cfr.fullSize => ret.err = "nil"

\* C12 as amended: for every Read on an open reader with a non-empty buffer, if
\* offset equals fullSize after the copy the call reports end-of-stream together
\* with its byte count, and if offset is still below fullSize it reports its
\* byte count with no error; a Read with an empty buffer copies nothing and
\* returns zero bytes and no error, wherever offset stands.
C12_EndOfStreamInSameCall ==
    (ret.op = "Read" /\ ~ret.wasClosed) =>
        /\ ret.n = cfr.offset - ret.before
        /\ (ret.len > 0 /\ cfr.offset = cfr.fullSize) => ret.err = "EOF"
        /\ (ret.len > 0 /\ cfr.offset < cfr.fullSize) => ret.err = "nil"
        /\ ret.len = 0 => (ret.n = 0 /\ ret.err = "nil")

C12_Witness ==
    /\ ret.op = "Read" /\ ~ret.wasClosed
    /\ ret.len > 0 /\ ret.n > 0 /\ ret.n < ret.len
    /\ ret.before > fileReaderBufferSize
    /\ cfr.offset = cfr.fullSize
    /\ ret.err = "EOF" /\ ~ret.eofBefore

\* C13: in every reachable state of a reader 0 <= offset <= fullSize; no step
\* decreases offset, changes fullSize or takes closed from true back to false;
\* and a Close changes neither offset nor fullSize.
C13_ReaderInvariants ==
    /\ [](0 <= cfr.offset /\ cfr.offset <= cfr.fullSize)
    /\ [][/\ cfr'.offset >= cfr.offset
          /\ cfr'.fullSize = cfr.fullSize
          /\ cfr.closed => cfr'.closed
          /\ hist'.closes # hist.closes =>
                (cfr'.offset = cfr.offset /\ cfr'.fullSize = cfr.fullSize)]_vars

C13_Witness ==
    /\ ret.op = "Close" /\ ret.wasClosed /\ cfr.closed
    /\ hist.reads >= 3
    /\ ret.before = cfr.fullSize /\ cfr.offset = cfr.fullSize
    /\ cfr.fullSize > fileReaderBufferSize

\* C14: a Read on an open reader that returns n leaves in positions 0..n-1 of
\* the caller's buffer the resident bytes at offset..offset+n-1 (offset taken
\* before the call) and writes no other position; the chunk starts where the
\* chunks delivered before it end, so the chunks together are a prefix of the
\* resident buffer; and no index at or beyond fullSize is read.
C14_StreamFidelity ==
    (ret.op = "Read" /\ ~ret.wasClosed) =>
        /\ \A i \in DOMAIN p :
              /\ i < ret.n => p[i] = byte(goSlice(ret.before + i))
              /\ i >= ret.n => p[i] = Untouched
        /\ ret.before = hist.sum - ret.n
        /\ hist.sum = cfr.offset
        /\ ret.before + ret.n <= cfr.fullSize
        /\ ret.err # "panic"

C14_Witness ==
    /\ ret.op = "Read" /\ ~ret.wasClosed
    /\ ret.before \in 1 .. 3
    /\ ret.len = fileReaderBufferSize + 1 /\ ret.n = fileReaderBufferSize
    /\ p[0] = byte(goSlice(ret.before))
    /\ p[fileReaderBufferSize - 1] = byte(goSlice(ret.before + fileReaderBufferSize - 1))
    /\ p[fileReaderBufferSize] = Untouched
    /\ p[0] # byte(goSlice(0))

\* ceil(a / b)
CeilDiv(a, b) == (a + b - 1) \div b

\* C20: a caller that keeps calling Read on an open reader with non-empty
\* buffers, the smallest of length B, has received end-of-stream once it has
\* made ceil(fullSize / min(B, chunkCap)) calls (one call when fullSize is 0),
\* and makes no more calls than that before it; every call made before
\* end-of-stream strictly increases offset.
C20_ReadLoopTerminates ==
    LET bound == IF cfr.fullSize = 0 THEN 1 ELSE CeilDiv(cfr.fullSize, hist.chunk)
    IN  /\ hist.calls <= bound
        /\ hist.calls = bound => hist.eof
        /\ (cfr.fullSize = 0 /\ hist.calls >= 1) => hist.eof
        /\ (ret.op = "Read" /\ ~ret.wasClosed /\ ret.len > 0 /\ ~ret.eofBefore
               /\ ret.before < cfr.fullSize) =>
              (cfr.offset > ret.before /\ ret.n > 0)
        /\ (ret.op = "Read" /\ ~ret.wasClosed /\ ret.len > 0 /\ ret.err = "nil") =>
              cfr.offset > ret.before

C20_Witness ==
    /\ ret.op = "Read" /\ ~ret.wasClosed /\ ret.len > 0
    /\ ret.err = "EOF" /\ ~ret.eofBefore
    /\ cfr.fullSize = 2 * fileReaderBufferSize + 1
    /\ hist.chunk = fileReaderBufferSize
    /\ hist.calls = 3 /\ hist.reads = 3

-----------------------------------------------------------------------------
(* The event wait's claims, checked under SpecEvent.                       *)

\* C6 as stated: for every AsyncWaitForEvent call exactly one CameraEvent is sent
\* on its channel, and once the task has delivered it the channel is closed.
C6_AsStated ==
    \A k \in DOMAIN waits :
        waits[k].pc = "done" => (waits[k].sent = 1 /\ waits[k].closed)

\* C6 as amended: for every AsyncWaitForEvent call at most one CameraEvent is ever
\* sent on its channel, exactly one has been sent and received once the task has
\* ended, and it is the conversion of what the native wait stored; the channel is
\* never closed, and a second receive on it gets nothing.
C6_OneEventNeverClosed ==
    \A k \in DOMAIN waits :
        /\ waits[k].sent <= 1
        /\ waits[k].received = waits[k].sent
        /\ waits[k].pc = "done" =>
             /\ waits[k].sent = 1
             /\ waits[k].ce = cCameraEventToGoCameraEvent(waits[k].vp, waits[k].eventType)
        /\ waits[k].sent = 1 => waits[k].pc = "done"
        /\ ~waits[k].closed

C6_Witness ==
    \E k \in DOMAIN waits :
        /\ waits[k].pc = "done"
        /\ waits[k].sent = 1 /\ waits[k].received = 1
        /\ waits[k].ce.Type = EventFileAdded
        /\ waits[k].rx = "receiving"
        /\ ~waits[k].closed

\* C15 as stated: for every AsyncWaitForEvent call the payload the native wait
\* produced is released exactly once, and only after the native wait has
\* returned and the payload has been converted into the CameraEvent.
C15_AsStated ==
    \A k \in DOMAIN waits :
        LET releases == {i \in DOMAIN waits[k].freed : waits[k].freed[i] = waits[k].vp}
        IN  /\ (waits[k].pc \in {"wait", "convert"} /\ waits[k].vp # NilPtr) =>
                  releases = {}
            /\ (waits[k].pc = "done" /\ waits[k].vp # NilPtr) =>
                  Cardinality(releases) = 1

\* C16 as stated: the task of an AsyncWaitForEvent call whose channel the caller
\* has abandoned (and so never receives from again) is not blocked at its send:
\* the send can complete, so that the task ends.
C16_AsStated ==
    \A k \in DOMAIN waits :
        (waits[k].pc = "send" /\ waits[k].rx = "abandoned") => ENABLED sendOn(k)

-----------------------------------------------------------------------------
(* The session's claims, checked under SpecSession.                        *)

\* C7 as stated: for every session operation other than the recursive folder
\* listing, if a native call the operation made returned a non-zero result (or a
\* native allocation of Init failed), the operation reports an error.
C7_AsStated ==
    (sret.op # "none" /\ sret.native) => sret.err \notin {"nil", "none"}

\* C8 as stated: after Init followed by Exit every further operation on the
\* session (a new Init apart) returns an error, and Exit without a prior Init
\* returns an error.
C8_AsStated ==
    /\ (sret.op \notin {"none", "Init"} /\ sret.phase = "exited") =>
           sret.err \notin {"nil", "none"}
    /\ (sret.op = "Exit" /\ sret.phase = "new") => sret.err # "nil"

\* C10 as stated: when GetConfig returns an error it returns no widget and every
\* root node it allocated has been released exactly once; when it succeeds the
\* returned root is unreleased and no other node it allocated is left unreleased.
C10_AsStated ==
    sret.op = "GetConfig" =>
        /\ sret.err # "nil" =>
             /\ sret.w = 0
             /\ \A id \in sret.allocated : widgets[id] = 1
        /\ sret.err = "nil" =>
             /\ sret.w \in sret.allocated
             /\ widgets[sret.w] = 0
             /\ \A id \in sret.allocated \ {sret.w} : widgets[id] = 1

\* C19 as stated: after an Exit that returned no error neither a context nor a
\* camera handle is still allocated, and at no time is a context or a handle
\* allocated that the session does not hold.
C19_AsStated ==
    /\ (sret.op = "Exit" /\ sret.err = "nil") => (nat.contexts = 0 /\ nat.cameras = 0)
    /\ \A id \in 1 .. nat.contexts : id = cam.context
    /\ \A id \in 1 .. nat.cameras : id = cam.camera

-----------------------------------------------------------------------------
(* The flat listings' claims, checked under SpecListing.                   *)

\* C11: when the native listing call fails, ListFolders and ListFiles return an
\* empty slice and an error; when it succeeds they return no error and a slice
\* that holds each name of the native list once; the empty path is listed as "/".
C11_ListingResult ==
    lst.op \in {"ListFolders", "ListFiles"} =>
        LET named == {lst.list[i].name : i \in DOMAIN lst.list}
        IN  /\ lst.rc # 0 => (lst.names = << >> /\ lst.err # "nil")
            /\ lst.rc = 0 =>
                  /\ lst.err = "nil"
                  /\ {lst.names[i] : i \in DOMAIN lst.names} = named
                  /\ Len(lst.names) = Cardinality(named)
            /\ lst.folder = << >> => lst.cFolder = <<"/">>

C11_Witness ==
    /\ lst.op = "ListFiles" /\ lst.rc = 0 /\ lst.err = "nil"
    /\ lst.folder = << >> /\ lst.cFolder = <<"/">>
    /\ lst.list = <<[name |-> <<"b">>, value |-> << >>],
                    [name |-> <<"b">>, value |-> << >>]>>
    /\ lst.names = <<<<"b">>>>

-----------------------------------------------------------------------------
(* The recursive listing's claims, checked under SpecRList.                *)

Range(f) == {f[i] : i \in DOMAIN f}

\* C9: a recursive listing started at the root, every level of which the device
\* listed, returns as a set exactly the fully-qualified paths of all folders
\* below the root, each once, whatever the order each level's names came in.
C9_AllDescendantsOnce ==
    (rl.done /\ rl.start \in {<< >>, <<"/">>} /\ rl.failed = {}) =>
        /\ Range(rl.result) = {Qualified(q) : q \in tree}
        /\ Len(rl.result) = Cardinality(tree)

C9_Witness ==
    /\ rl.done /\ rl.start = <<"/">> /\ rl.failed = {}
    /\ tree = {<<<<"a">>>>, <<<<"a">>, <<"b">>>>, <<<<"c">>>>}
    /\ rl.result = <<<<"/", "c">>, <<"/", "a">>, <<"/", "a", "/", "b">>>>

\* a path in which every name follows exactly one separator and none ends it
SinglySeparated(r) == r = Qualified(Parse(r))

\* the paths a call in progress or the finished listing holds
PathsBuilt ==
    UNION {Range(stack[k].folders) : k \in DOMAIN stack} \cup Range(rl.result)

\* C17 as stated: whenever the traversal is inside a nested call, the folder the
\* call was made for has the paths of all of its direct subfolders in its
\* result already; every path built is singly separated.
C17_AsStated ==
    /\ \A k \in 1 .. Len(stack) - 1 :
          \A j \in DOMAIN stack[k].subfolders :
              subPathOf(stack[k].path, stack[k].subfolders[j]) \in Range(stack[k].folders)
    /\ \A r \in PathsBuilt : SinglySeparated(r)

\* C17 as amended: whenever the traversal is inside a nested call, the path of
\* the subfolder the call was made for is the last one its parent has appended
\* and the nested call lists that path, while the subfolders the parent has
\* still to visit are not in its result yet; in the finished listing every
\* folder stands before its descendants; every path built is the parent path
\* and the child name joined by exactly one separator, whether or not the
\* listing was started on a path with a trailing separator.
C17_EachBeforeItsRecursion ==
    /\ \A k \in 1 .. Len(stack) - 1 :
          LET f == stack[k]
              subPath(j) == subPathOf(f.path, f.subfolders[j])
          IN  /\ f.i \in DOMAIN f.subfolders
              /\ f.folders # << >>
              /\ f.folders[Len(f.folders)] = subPath(f.i)
              /\ stack[k + 1].path = subPath(f.i) \o <<"/">>
              /\ \A j \in DOMAIN f.subfolders :
                    j > f.i => subPath(j) \notin Range(f.folders)
    /\ rl.done =>
          \A i, j \in DOMAIN rl.result :
              (/\ Len(rl.result[i]) > Len(rl.result[j])
               /\ SubSeq(rl.result[i], 1, Len(rl.result[j]) + 1)
                     = rl.result[j] \o <<"/">>) => j < i
    /\ \A r \in PathsBuilt : SinglySeparated(r)

C17_Witness ==
    /\ rl.done /\ rl.start = << >> /\ rl.failed = {}
    /\ tree = {<<<<"a">>>>, <<<<"a">>, <<"b">>>>, <<<<"c">>>>}
    /\ rl.result = <<<<"/", "a">>, <<"/", "a", "/", "b">>, <<"/", "c">>>>

\* the folders below the start of the listing that are reached through folders
\* the device listed: the start and every folder between it and them was listed
ReachedThroughListed ==
    LET base == Parse(rl.start)
    IN  {q \in tree :
           /\ Len(q) > Len(base)
           /\ \A m \in Len(base) .. Len(q) - 1 :
                 /\ SubSeq(q, 1, Len(base)) = base
                 /\ pathOf(Qualified(SubSeq(q, 1, m))) \notin rl.failed}

\* C18: a recursive listing in which the device fails to list some folders
\* still returns; a folder whose listing failed is in the result (if its parent
\* was listed) without any descendant, and the result holds, each once, exactly
\* the folders reached through folders whose listing succeeded.
C18_BestEffort ==
    /\ rl.done =>
          /\ Range(rl.result) = {Qualified(q) : q \in ReachedThroughListed}
          /\ Len(rl.result) = Cardinality(ReachedThroughListed)
          /\ \A r \in Range(rl.result), d \in Range(rl.result) :
                (Len(d) > Len(r) /\ SubSeq(d, 1, Len(r) + 1) = r \o <<"/">>)
                    => pathOf(r) \notin rl.failed
    /\ (rl.called /\ ~rl.done) => ENABLED (RListRecurse \/ RListReturn)

C18_Witness ==
    /\ rl.done /\ rl.start = <<"/">>
    /\ tree = {<<<<"a">>>>, <<<<"a">>, <<"b">>>>, <<<<"c">>>>}
    /\ rl.failed = {<<"/", "a", "/">>}
    /\ rl.result = <<<<"/", "a">>, <<"/", "c">>>>

=============================================================================
